---- MODULE Spec2Model ----
(***************************************************************************)
(* Model of src/realtime_portfolio_system.py: the class                     *)
(* RealtimePortfolioSystemFixed (normalizer prepare_options_data, the       *)
(* update_cycle executor with its statistics, and the run/stop scheduler).  *)
(***************************************************************************)
EXTENDS Integers, Sequences, FiniteSets, TLC

VARIABLES
    running,   \* self.running
    pc,        \* position of the run() coroutine
    pending,   \* the asyncio.sleep durations still to be awaited in this iteration
    slept,     \* time units slept since the last update_cycle returned
    stats,     \* self.stats
    cycles,    \* number of update_cycle executions so far
    last,      \* what the last update_cycle was given and what it did
    out,       \* what run()/stop() have logged and printed
    hist,      \* sums over the cycles that returned True
    raw,       \* the live_data last handed to prepare_options_data
    norm       \* the result of the last prepare_options_data call

vars == <<running, pc, pending, slept, stats, cycles, last, out, hist, raw, norm>>

(***************************************************************************)
(* Bounds of the model.                                                     *)
(***************************************************************************)
MaxRaw == 7        \* longest raw options list of one symbol
MaxCycles == 3     \* update cycles explored in one run
MaxElapsed == 2    \* largest elapsed time of one cycle
MaxProcessed == 1  \* largest count returned by process_portfolio_options

(***************************************************************************)
(* Program constants.                                                       *)
(***************************************************************************)
update_interval == 60
retry_delay == 30
slice_limit == 5
tracked_symbols == <<"AAPL", "MSFT", "GOOGL">>

Min(a, b) == IF a < b THEN a ELSE b

(***************************************************************************)
(* Raw payloads.  A payload is a mapping ("dict") or an attribute-bearing   *)
(* object ("obj"); keys is the set of keys (attributes) it carries.  A      *)
(* nested market-info value has the same two shapes.                        *)
(***************************************************************************)
NoMarketInfo == [shape |-> "none", keys |-> {}, spot_price |-> 0]

MarketInfos ==
    {NoMarketInfo} \cup
    {[shape |-> s, keys |-> {}, spot_price |-> 0] : s \in {"dict", "obj"}} \cup
    {[shape |-> s, keys |-> {"spot_price"}, spot_price |-> 150] : s \in {"dict", "obj"}}

RawOptions(n) == [i \in 1..n |-> i]

MkPayload(shape, hasSpot, mi, hasOpts, n) ==
    [shape |-> shape,
     keys |-> (IF hasSpot THEN {"spot_price"} ELSE {}) \cup
              (IF mi.shape # "none" THEN {"market_data"} ELSE {}) \cup
              (IF hasOpts THEN {"options"} ELSE {}),
     spot_price |-> IF hasSpot THEN 99 ELSE 0,
     market_data |-> mi,
     options |-> IF hasOpts THEN RawOptions(n) ELSE <<>>]

Payloads ==
    {MkPayload("dict", hs, mi, ho, n) :
        hs \in BOOLEAN, mi \in MarketInfos, ho \in BOOLEAN, n \in 0..MaxRaw} \cup
    {MkPayload("obj", hs, NoMarketInfo, ho, n) :
        hs \in BOOLEAN, ho \in BOOLEAN, n \in 0..MaxRaw}

\* live_data: what fetch_live_data returned.  type "dict" is a mapping whose
\* items are in insertion order; "list" is a truthy value that is no mapping;
\* "none" is None.
NoneLive == [type |-> "none", items |-> <<>>]
EmptyLive == [type |-> "dict", items |-> <<>>]
ListLive == [type |-> "list", items |-> <<[symbol |-> "AAPL", data |-> MkPayload("dict", TRUE, NoMarketInfo, TRUE, 1)]>>]
Mapping(items) == [type |-> "dict", items |-> items]

(***************************************************************************)
(* prepare_options_data                                                     *)
(***************************************************************************)
hasattr(obj, name) == obj.shape = "obj" /\ name \in obj.keys

getattr(obj, name, default) == IF hasattr(obj, name) THEN obj[name] ELSE default

dict_get(d, key, default) == IF key \in d.keys THEN d[key] ELSE default

\* a .get('spot_price') without its default: None, written -1
spot_price_of_nodefault(data) ==
    IF data.shape = "dict"
    THEN IF "market_data" \in data.keys
         THEN getattr(data.market_data, "spot_price", dict_get(data, "spot_price", -1))
         ELSE dict_get(data, "spot_price", -1)
    ELSE IF hasattr(data, "spot_price") THEN getattr(data, "spot_price", -1) ELSE -1

spot_price_of(data) ==
    IF data.shape = "dict"
    THEN IF "market_data" \in data.keys
         THEN getattr(data.market_data, "spot_price", dict_get(data, "spot_price", 0))
         ELSE dict_get(data, "spot_price", 0)
    ELSE IF hasattr(data, "spot_price") THEN getattr(data, "spot_price", 0) ELSE 0

options_list_of(data) ==
    IF data.shape = "dict"
    THEN dict_get(data, "options", <<>>)
    ELSE IF hasattr(data, "options") THEN getattr(data, "options", <<>>) ELSE <<>>

\* a per-record step that appends the record to processed_options
process_option_append(processed, opt, symbol) ==
    Append(processed, [symbol |-> symbol, raw |-> opt])

\* the per-record step of the loop body: the source holds a comment only, so
\* processed_options is left as it is
process_option(processed, opt, symbol) == processed

Take(s, n) == SubSeq(s, 1, Min(n, Len(s)))

RECURSIVE option_loop(_, _, _, _)
option_loop(options, processed, rest, symbol) ==
    IF rest = <<>>
    THEN options
    ELSE LET p == process_option(processed, Head(rest), symbol)
         IN option_loop(options \o Take(p, slice_limit), p, Tail(rest), symbol)

\* an entry recorded only for a symbol whose spot_price resolved to a price
record_market_if_priced(market_data, symbol, spot_price) ==
    IF spot_price = 0
    THEN market_data
    ELSE (symbol :> [spot_price |-> spot_price]) @@ market_data

\* market_data[symbol] = {'spot_price': spot_price}
record_market(market_data, symbol, spot_price) ==
    (symbol :> [spot_price |-> spot_price]) @@ market_data

RECURSIVE symbol_loop(_, _, _)
symbol_loop(options, market_data, items) ==
    IF items = <<>>
    THEN [raised |-> FALSE, options |-> options, market_data |-> market_data]
    ELSE LET symbol == Head(items).symbol
             data == Head(items).data
             spot_price == spot_price_of(data)
             options_list == options_list_of(data)
         IN symbol_loop(option_loop(options, <<>>, options_list, symbol),
                        record_market(market_data, symbol, spot_price),
                        Tail(items))

prepare_options_data(live_data) ==
    IF live_data.type # "dict"
    THEN [raised |-> TRUE, options |-> <<>>, market_data |-> <<>>]
    ELSE symbol_loop(<<>>, <<>>, live_data.items)

NotRun == [done |-> FALSE, raised |-> FALSE, options |-> <<>>, market_data |-> <<>>]

Ran(r) == [done |-> TRUE, raised |-> r.raised, options |-> r.options, market_data |-> r.market_data]

(***************************************************************************)
(* Statistics.  avg_time is a float in the source; the model keeps its      *)
(* exact value as a fraction in lowest terms.                               *)
(***************************************************************************)
RECURSIVE GCD(_, _)
GCD(a, b) == IF b = 0 THEN a ELSE GCD(b, a % b)

Frac(n, d) == LET g == GCD(n, d) IN [num |-> n \div g, den |-> d \div g]

InitStats ==
    [updates |-> 0, successful_updates |-> 0, total_processed |-> 0,
     avg_time |-> Frac(0, 1)]

\* a statistics block that forgets `self.stats['updates'] += 1`
record_success_uncounted(st, processed_count, elapsed_time) ==
    [st EXCEPT !.successful_updates = @ + 1,
               !.total_processed = @ + processed_count]

\* the "Update statistics" block of update_cycle
record_success(st, processed_count, elapsed_time) ==
    LET updates == st.updates + 1
    IN [updates |-> updates,
        successful_updates |-> st.successful_updates + 1,
        total_processed |-> st.total_processed + processed_count,
        avg_time |-> Frac(st.avg_time.num * (updates - 1) + elapsed_time * st.avg_time.den,
                          st.avg_time.den * updates)]

\* the except block of update_cycle
except_handler(st) == [st EXCEPT !.updates = @ + 1]

(***************************************************************************)
(* update_cycle                                                             *)
(***************************************************************************)
\* an except clause that guards the fetch call only
caught_fetch_only(step) == step = "fetch"

\* except Exception: every fault raised in the try body is caught
caught(step) == TRUE

\* `if not live_data`
no_live_data(live_data) ==
    live_data.type = "none" \/ (live_data.type = "dict" /\ live_data.items = <<>>)

\* a check that lets an empty list through (`is None`)
no_options_is_none(options_data) == FALSE

\* `if not options_data`
no_options(options_data) == options_data = <<>>

Outcome(st, ret, escaped, fault_at, calls, errors, warnings, nrm, elapsed, processed) ==
    [stats |-> st, ret |-> ret, escaped |-> escaped, fault_at |-> fault_at,
     calls |-> calls, errors |-> errors, warnings |-> warnings, norm |-> nrm,
     elapsed |-> elapsed, processed |-> processed]

\* a fault raised at `step` of the try body with the statistics at st
Fault(step, st, calls, nrm, elapsed, processed) ==
    IF caught(step)
    THEN Outcome(except_handler(st), FALSE, "none", step, calls, 1, 0, nrm, elapsed, processed)
    ELSE Outcome(st, FALSE, "Exception", step, calls, 0, 0, nrm, elapsed, processed)

\* a fault raised at `step` whose exception cannot be formatted: the f-string
\* of logger.error in the except block raises before updates is incremented,
\* and that second fault leaves update_cycle
HandlerFault(step, st, calls, nrm) ==
    Outcome(st, FALSE, "Exception", IF caught(step) THEN "handler" ELSE step,
            calls, 0, 0, nrm, 0, 0)

\* update_cycle with the result of its prepare_options_data call given as prep
cycle(st, env, prep) ==
    IF env.fetch.kind = "interrupt"
    THEN Outcome(st, FALSE, "KeyboardInterrupt", "none", <<"fetch">>, 0, 0, NotRun, 0, 0)
    ELSE IF env.fetch.kind = "raise"
    THEN Fault("fetch", st, <<"fetch">>, NotRun, 0, 0)
    ELSE IF env.fetch.kind = "raise_unloggable"
    THEN HandlerFault("fetch", st, <<"fetch">>, NotRun)
    ELSE IF no_live_data(env.fetch.data)
    THEN Outcome(st, FALSE, "none", "none", <<"fetch">>, 0, 1, NotRun, 0, 0)
    ELSE IF prep.raised
    THEN Fault("normalize", st, <<"fetch">>, Ran(prep), 0, 0)
    ELSE IF no_options(prep.options)
    THEN Outcome(st, FALSE, "none", "none", <<"fetch">>, 0, 1, Ran(prep), 0, 0)
    ELSE IF env.fault = "process"
    THEN Fault("process", st, <<"fetch", "process">>, Ran(prep), 0, 0)
    ELSE IF env.fault = "greeks"
    THEN Fault("greeks", st, <<"fetch", "process", "greeks">>, Ran(prep), 0, 0)
    ELSE LET st2 == record_success(st, env.count, env.elapsed)
             calls == <<"fetch", "process", "greeks", "status">>
         IN IF env.fault = "status"
            THEN Fault("status", st2, calls, Ran(prep), env.elapsed, env.count)
            ELSE Outcome(st2, TRUE, "none", "none", calls, 0, 0, Ran(prep),
                         env.elapsed, env.count)

update_cycle(st, env) == cycle(st, env, prepare_options_data(env.fetch.data))

(***************************************************************************)
(* Inputs of one cycle: what the collaborators do and how long it takes.    *)
(***************************************************************************)
ScenarioB == Mapping(<<[symbol |-> "AAPL", data |-> MkPayload("dict", TRUE, NoMarketInfo, TRUE, 0)]>>)

ScenarioC ==
    Mapping(<<[symbol |-> "AAPL",
               data |-> MkPayload("dict", FALSE,
                                  [shape |-> "dict", keys |-> {"spot_price"}, spot_price |-> 150],
                                  TRUE, MaxRaw)]>>)

ObjectLive ==
    Mapping(<<[symbol |-> "MSFT", data |-> MkPayload("obj", TRUE, NoMarketInfo, TRUE, 3)],
              [symbol |-> "GOOGL", data |-> MkPayload("dict", FALSE, NoMarketInfo, FALSE, 0)]>>)

LiveSamples == {NoneLive, EmptyLive, ListLive, ScenarioB, ScenarioC, ObjectLive}

FetchOutcomes ==
    {[kind |-> k, data |-> NoneLive] : k \in {"raise", "raise_unloggable", "interrupt"}} \cup
    {[kind |-> "return", data |-> d] : d \in LiveSamples}

\* fault: the collaborator call after the fetch that raises in this cycle;
\* count: what process_portfolio_options returns; elapsed: time.time() -
\* start_time.  Inputs the cycle cannot read are held at 0.
MkEnv(fetch, fault, count, elapsed) ==
    LET reads == fetch.kind = "return" /\ fault \in {"none", "status"}
    IN [fetch |-> fetch,
        fault |-> IF fetch.kind = "return" THEN fault ELSE "none",
        count |-> IF reads THEN count ELSE 0,
        elapsed |-> IF reads THEN elapsed ELSE 0]

Envs ==
    {MkEnv(f, x, c, e) :
        f \in FetchOutcomes, x \in {"none", "process", "greeks", "status"},
        c \in 0..MaxProcessed, e \in 1..MaxElapsed}

\* the cycles of Envs over three fetch results: no data, no mapping, a mapping
ExecEnvs == {env \in Envs : env.fetch.data \in {NoneLive, ListLive, ScenarioC}}

\* options sequences a normalizer could hand to the compute collaborator
OptionSamples == {[i \in 1..n |-> [symbol |-> "AAPL", raw |-> i]] : n \in 0..1}

(***************************************************************************)
(* run and stop                                                             *)
(***************************************************************************)
\* a stop() that prints nothing
stop_out_silent(o) == o

\* stop(): clears the flag and prints the final statistics
stop_out(o) == [o EXCEPT !.summaries = @ + 1]

\* a run() without its `except Exception` clause: the fault leaves run()
run_handlers_no_except(o, escaped) ==
    IF escaped = "KeyboardInterrupt"
    THEN [o EXCEPT !.interrupted = @ + 1, !.exit = "return"]
    ELSE [o EXCEPT !.exit = "raise"]

\* the except clauses of run() for what left the while loop: Ctrl+C is
\* announced, an Exception is logged as fatal, and run() returns; anything
\* else (a cancellation) passes through and leaves run()
run_handlers(o, escaped) ==
    IF escaped = "KeyboardInterrupt"
    THEN [o EXCEPT !.interrupted = @ + 1, !.exit = "return"]
    ELSE IF escaped = "Exception"
    THEN [o EXCEPT !.fatal = @ + 1, !.exit = "return"]
    ELSE [o EXCEPT !.exit = "raise"]

\* a loop that starts cycles from a timer, whether or not it is in a sleep
cycle_may_begin_on_timer == pc \in {"loop", "sleep"} /\ running

\* a loop that does not test the flag (`while True`)
cycle_may_begin_unconditionally == pc = "loop"

\* update_cycle is called from the head of the while loop, with running set
cycle_may_begin == pc = "loop" /\ running

\* a loop body whose failure branch has no `continue`
run_waits_no_continue(success) ==
    IF success THEN <<update_interval>> ELSE <<retry_delay, update_interval>>

\* the sleeps one iteration of the while loop awaits after update_cycle returned
run_waits(success) ==
    IF success THEN <<update_interval>> ELSE <<retry_delay>>

NoCycle ==
    [before |-> InitStats, fetched |-> "none", ret |-> FALSE, escaped |-> "none",
     fault_at |-> "none", calls |-> <<>>, errors |-> 0, warnings |-> 0,
     elapsed |-> 0, processed |-> 0]

InitSystem ==
    /\ running = FALSE
    /\ pc = "idle"
    /\ pending = <<>>
    /\ slept = 0
    /\ stats = InitStats
    /\ cycles = 0
    /\ last = NoCycle
    /\ out = [fatal |-> 0, interrupted |-> 0, summaries |-> 0, exit |-> "none"]
    /\ hist = [succ |-> 0, elapsed |-> 0, processed |-> 0]
    /\ norm = NotRun

Init == InitSystem /\ raw = EmptyLive

\* run() up to the while loop
Start ==
    /\ pc = "idle"
    /\ running' = TRUE
    /\ pc' = "loop"
    /\ UNCHANGED <<pending, slept, stats, cycles, last, out, hist, raw, norm>>

\* one iteration of the while loop, from the call of update_cycle (outcome o)
\* to the first await of a sleep, or to the except/finally blocks of run
Iteration(env, o) ==
    /\ cycle_may_begin
    /\ cycles < MaxCycles
    /\ stats' = o.stats
    /\ cycles' = cycles + 1
    /\ last' = [before |-> stats, fetched |-> env.fetch.kind, ret |-> o.ret,
                escaped |-> o.escaped, fault_at |-> o.fault_at, calls |-> o.calls,
                errors |-> o.errors, warnings |-> o.warnings,
                elapsed |-> o.elapsed, processed |-> o.processed]
    /\ hist' = IF o.ret
               THEN [succ |-> hist.succ + 1, elapsed |-> hist.elapsed + o.elapsed,
                     processed |-> hist.processed + o.processed]
               ELSE hist
    /\ raw' = IF env.fetch.kind = "return" THEN env.fetch.data ELSE raw
    /\ norm' = o.norm
    /\ slept' = 0
    /\ IF o.escaped = "none"
       THEN /\ pending' = run_waits(o.ret)
            /\ pc' = "sleep"
            /\ UNCHANGED <<running, out>>
       ELSE /\ pending' = <<>>
            /\ pc' = "stopped"
            /\ running' = FALSE
            /\ out' = stop_out(run_handlers(out, o.escaped))

\* the system as written: update_cycle normalizes with prepare_options_data
UpdateCycle == \E env \in Envs : Iteration(env, update_cycle(stats, env))

\* the executor with the options sequence of the normalizer as an input
ExecCycle ==
    \E env \in ExecEnvs, options_data \in OptionSamples :
        Iteration(env, cycle(stats, env,
                             [prepare_options_data(env.fetch.data) EXCEPT !.options = options_data]))

\* an awaited asyncio.sleep returns
Wake ==
    /\ pc = "sleep"
    /\ pending # <<>>
    /\ slept' = slept + Head(pending)
    /\ pending' = Tail(pending)
    /\ pc' = IF Tail(pending) = <<>> THEN "loop" ELSE "sleep"
    /\ UNCHANGED <<running, stats, cycles, last, out, hist, raw, norm>>

\* the while test fails: the finally block calls stop()
LoopExit ==
    /\ pc = "loop"
    /\ ~running
    /\ pc' = "stopped"
    /\ running' = FALSE
    /\ out' = stop_out([out EXCEPT !.exit = "return"])
    /\ UNCHANGED <<pending, slept, stats, cycles, last, hist, raw, norm>>

\* stop() called by another task while run() is suspended in a sleep
StopCall ==
    /\ pc = "sleep"
    /\ running
    /\ running' = FALSE
    /\ out' = stop_out(out)
    /\ UNCHANGED <<pc, pending, slept, stats, cycles, last, hist, raw, norm>>

\* Ctrl+C while run() is suspended in a sleep: the task is cancelled at the
\* await, the finally block calls stop()
Interrupt ==
    /\ pc = "sleep"
    /\ pc' = "stopped"
    /\ pending' = <<>>
    /\ running' = FALSE
    /\ out' = stop_out(run_handlers(out, "CancelledError"))
    /\ UNCHANGED <<slept, stats, cycles, last, hist, raw, norm>>

Scheduler == Start \/ Wake \/ LoopExit \/ StopCall \/ Interrupt

Next == UpdateCycle \/ Scheduler

Spec == Init /\ [][Next]_vars

NextExec == ExecCycle \/ Scheduler

SpecExec == Init /\ [][NextExec]_vars

(***************************************************************************)
(* The normalizer on its own: prepare_options_data applied to an input.     *)
(***************************************************************************)
KeySeqs == {<<"AAPL">>, <<"MSFT", "AAPL">>}

LiveInputs ==
    {EmptyLive, ListLive} \cup
    UNION {{Mapping([i \in 1..Len(ks) |-> [symbol |-> ks[i], data |-> ps[i]]]) :
                ps \in [1..Len(ks) -> Payloads]} : ks \in KeySeqs}

InitNorm == InitSystem /\ raw \in LiveInputs

Normalize ==
    /\ ~norm.done
    /\ norm' = Ran(prepare_options_data(raw))
    /\ UNCHANGED <<running, pc, pending, slept, stats, cycles, last, out, hist, raw>>

NextNorm == Normalize

SpecNorm == InitNorm /\ [][NextNorm]_vars

(***************************************************************************)
(* Properties.                                                              *)
(***************************************************************************)
Range(f) == {f[i] : i \in DOMAIN f}

\* number of normalized options in `options` that belong to `symbol`
CountFor(options, symbol) == Cardinality({i \in DOMAIN options : options[i].symbol = symbol})

\* the last update_cycle ran to a return (True or False)
Returned == cycles > 0 /\ last.escaped = "none"

\* C1: every update_cycle that returns (success, nothing fetched, no options,
\* caught fault) has increased stats['updates'] by exactly 1.
C1_EveryCycleCountsOnce ==
    Returned => stats.updates = last.before.updates + 1

C4_WaitAfterCycle ==
    (pc = "loop" /\ cycles > 0)
        => slept = (IF last.ret THEN update_interval ELSE retry_delay)

C4_Witness ==
    /\ pc = "loop" /\ running /\ cycles >= 2
    /\ ~last.ret /\ slept = retry_delay
    /\ last.before.successful_updates >= 1

C6_EmptyShortCircuits ==
    (Returned /\ last.fetched = "return" /\ last.fault_at = "none"
        /\ (raw.type = "none" \/ raw = EmptyLive \/ (norm.done /\ norm.options = <<>>)))
        => /\ ~last.ret
           /\ "process" \notin Range(last.calls)
           /\ "greeks" \notin Range(last.calls)

C6_Witness ==
    /\ Returned /\ last.fetched = "return" /\ raw = ScenarioB
    /\ norm.done /\ norm.options = <<>>
    /\ ~last.ret /\ last.calls = <<"fetch">>

\* C7: a symbol with n raw option records contributes exactly min(n, 5)
\* normalized options to the result of prepare_options_data.
C7_ContributesMinOfCountAndFive ==
    (norm.done /\ ~norm.raised)
        => \A i \in DOMAIN raw.items :
              CountFor(norm.options, raw.items[i].symbol)
                  = Min(Len(raw.items[i].data.options), 5)

\* C8: no symbol contributes more than 5 normalized options to the result of
\* prepare_options_data, however many raw option records it has.
C8_AtMostFivePerSymbol ==
    (norm.done /\ ~norm.raised)
        => \A i \in DOMAIN raw.items : CountFor(norm.options, raw.items[i].symbol) <= 5

C8_Witness ==
    /\ norm.done /\ ~norm.raised
    /\ \E i \in DOMAIN raw.items :
          /\ Len(raw.items[i].data.options) > 5
          /\ CountFor(norm.options, raw.items[i].symbol) <= 5

\* C9: for a mapping payload with a nested market-info value, the canonical
\* spot_price is the nested spot_price when the nested value (mapping or
\* object) carries one, else the top-level spot_price, else 0.
C9_NestedSpotPriceWins ==
    (norm.done /\ ~norm.raised)
        => \A i \in DOMAIN raw.items :
              LET data == raw.items[i].data
              IN (data.shape = "dict" /\ "market_data" \in data.keys)
                    => norm.market_data[raw.items[i].symbol].spot_price
                          = (IF "spot_price" \in data.market_data.keys
                             THEN data.market_data.spot_price
                             ELSE IF "spot_price" \in data.keys
                             THEN data.spot_price
                             ELSE 0)

\* a payload that carries no spot_price, at the top level or nested
NoSpotPrice(data) ==
    /\ "spot_price" \notin data.keys
    /\ "market_data" \in data.keys => "spot_price" \notin data.market_data.keys

\* C10: for a mapping of payloads, prepare_options_data does not raise, and
\* every payload without a spot_price (nested mapping, flat mapping or object,
\* with or without an options list) gets spot_price 0.
C10_MissingSpotPriceIsZero ==
    (norm.done /\ raw.type = "dict")
        => /\ ~norm.raised
           /\ \A i \in DOMAIN raw.items :
                 NoSpotPrice(raw.items[i].data)
                    => norm.market_data[raw.items[i].symbol].spot_price = 0

C10_Witness ==
    /\ norm.done /\ ~norm.raised /\ Len(raw.items) = 2
    /\ raw.items[1].data.shape = "dict" /\ raw.items[1].data.keys = {"market_data"}
    /\ raw.items[1].data.market_data.keys = {}
    /\ raw.items[2].data.shape = "obj" /\ raw.items[2].data.keys = {}
    /\ \A i \in 1..2 : norm.market_data[raw.items[i].symbol].spot_price = 0

\* C11: the scheduler is STOPPED (running = FALSE) after construction, RUNNING
\* once run has started and until something stops it, and whenever run has
\* ended (flag cleared by stop, fault out of the cycle, interrupt) it is
\* STOPPED with the final statistics summary printed.
C11_StoppedRunningStopped ==
    /\ running \in BOOLEAN
    /\ pc = "idle" => (~running /\ out.summaries = 0)
    /\ (pc \in {"loop", "sleep"} /\ out.summaries = 0) => running
    /\ pc = "stopped" => (~running /\ out.summaries >= 1 /\ out.exit # "none")

C11_Witness ==
    /\ pc = "stopped" /\ ~running /\ out.summaries = 2
    /\ cycles >= 1 /\ out.exit = "return"

\* C12: an Exception that leaves update_cycle is logged once as fatal by run,
\* the final summary is printed, the scheduler is STOPPED, run returns instead
\* of raising, and no cycle can begin any more.
C12_EscapedFaultStopsGracefully ==
    (cycles > 0 /\ last.escaped = "Exception")
        => /\ out.fatal = 1
           /\ out.summaries >= 1
           /\ pc = "stopped" /\ ~running
           /\ out.exit = "return"
           /\ ~ENABLED UpdateCycle

C12_Witness ==
    /\ cycles >= 2 /\ last.escaped = "Exception" /\ last.fault_at = "handler"
    /\ out.fatal = 1 /\ pc = "stopped"

\* the wait the loop owes after the last cycle
WaitDue == IF last.ret THEN update_interval ELSE retry_delay

\* C13: a cycle can begin only at the head of the loop, when the cycle before
\* it has returned and the wait that followed it has elapsed in full; so no
\* two cycles overlap.
C13_CyclesInSequence ==
    ENABLED ExecCycle
        => /\ pc = "loop"
           /\ pending = <<>>
           /\ cycles > 0 => (last.escaped = "none" /\ slept = WaitDue)

C13_Witness ==
    /\ ENABLED ExecCycle /\ cycles >= 2
    /\ last.ret /\ slept = update_interval

\* C14: an interrupt that arrives while a cycle is in progress does not preempt
\* it: the cycle runs to its return before the scheduler is STOPPED.
C14_InterruptNeverPreemptsCycle ==
    (cycles > 0 /\ (last.fetched = "interrupt" \/ out.interrupted > 0))
        => (pc = "stopped" /\ last.escaped = "none")

C17_MarketKeysEqualInputKeys ==
    (norm.done /\ ~norm.raised)
        => DOMAIN norm.market_data = {raw.items[i].symbol : i \in DOMAIN raw.items}

C17_Witness ==
    /\ norm.done /\ ~norm.raised /\ Len(raw.items) = 2
    /\ norm.market_data[raw.items[1].symbol].spot_price = 0
    /\ raw.items[2].data.options = <<>>
    /\ DOMAIN norm.market_data = {raw.items[1].symbol, raw.items[2].symbol}

\* C18: 0 <= successful_updates <= updates in every state, so the success
\* rate successful_updates / max(1, updates) is at most 100%.
C18_SuccessfulAtMostUpdates ==
    /\ 0 <= stats.successful_updates
    /\ stats.successful_updates <= stats.updates
    /\ stats.successful_updates * 100
          <= 100 * (IF stats.updates > 1 THEN stats.updates ELSE 1)

C18_Witness ==
    stats.successful_updates >= 1 /\ stats.updates > stats.successful_updates

\* C19: prepare_options_data as written returns no options, so every cycle of
\* the system stops at the "no valid options" check at the latest: the compute
\* collaborator is never called, no cycle returns True and successful_updates
\* stays 0.
C19_NoCycleEverSucceeds ==
    /\ norm.done => norm.options = <<>>
    /\ "process" \notin Range(last.calls)
    /\ ~last.ret
    /\ stats.successful_updates = 0
    /\ hist.succ = 0

C19_Witness ==
    /\ cycles >= 2 /\ raw = ScenarioC /\ norm.done /\ ~norm.raised
    /\ last.warnings = 1 /\ last.calls = <<"fetch">>

\* C20: once stop() has cleared the flag during a wait, no cycle can begin; the
\* wait is left pending as it was, and when the loop is back at its head it
\* has slept the whole wait and can only exit.
C20_NoCycleAfterStop ==
    (~running /\ pc \in {"sleep", "loop"})
        => /\ ~ENABLED ExecCycle
           /\ pc = "sleep" => (pending = <<WaitDue>> /\ slept = 0)
           /\ pc = "loop" => (pending = <<>> /\ slept = WaitDue /\ ENABLED LoopExit)

C20_Witness ==
    /\ ~running /\ pc = "loop" /\ cycles >= 1
    /\ out.summaries = 1 /\ slept = update_interval

====
